---- MODULE Spec2Model ----
(***************************************************************************)
(* Change Management FAQ chatbot (src/server.js).                          *)
(*                                                                         *)
(* Server side: the knowledge base KB is built from the text extracted     *)
(* from knowledgebase.pdf (parseStructuredQA, then parseUnstructured as a  *)
(* fallback), reloaded by the initial load and by the fs.watchFile         *)
(* callback, and served by GET /kb.  Client side: the page fetches /kb     *)
(* once into FAQ and answers questions with scoreMatch / getAnswer.        *)
(*                                                                         *)
(* Strings are TLA+ strings; the character at index i of s is              *)
(* SubSeq(s, i, i).  Indices are 1-based here and 0-based in the source.   *)
(* The character "~" stands for the ellipsis U+2026 and "#" for any other  *)
(* non-ASCII character: like them it is one UTF-16 unit, is not            *)
(* whitespace, is not in [a-z0-9] and is unchanged by toLowerCase.         *)
(***************************************************************************)
EXTENDS Integers, Sequences, FiniteSets, TLC

VARIABLES
  file,     \* knowledgebase.pdf as the server finds it on disk
  dirty,    \* the file changed and the watchFile poll has not fired yet
  started,  \* the module's top level has run
  KB,       \* the server's knowledge base
  pending,  \* loads in flight: the bytes each one read
  console,  \* the last line loadPdfKnowledge logged
  FAQ,      \* the page's copy of the knowledge base
  reply,    \* the last question answered and the bot's message
  call      \* the last direct application of a function (SpecFn)

vars == <<file, dirty, started, KB, pending, console, FAQ, reply, call>>

sysVars == <<file, dirty, started, KB, pending, console, FAQ, reply>>

-----------------------------------------------------------------------------
(* Characters and the string and array primitives of JavaScript the source *)
(* uses.  Whatever walks a whole string or array is written by halving     *)
(* the index range, so that the depth of evaluation stays logarithmic.     *)

At(s, i) == SubSeq(s, i, i)

UpperAlpha == "ABCDEFGHIJKLMNOPQRSTUVWXYZ"

LowerAlpha == "abcdefghijklmnopqrstuvwxyz"

Digits == "0123456789"

UpperChars == {At(UpperAlpha, i) : i \in 1..Len(UpperAlpha)}

LowerChars == {At(LowerAlpha, i) : i \in 1..Len(LowerAlpha)}

DigitChars == {At(Digits, i) : i \in 1..Len(Digits)}

LowerOf ==
  [c \in UpperChars |->
     At(LowerAlpha, CHOOSE i \in 1..Len(UpperAlpha) : At(UpperAlpha, i) = c)]

Min(S) == CHOOSE x \in S : \A y \in S : x <= y

Max(S) == CHOOSE x \in S : \A y \in S : x >= y

\* the strings g[lo], ..., g[hi] joined
RECURSIVE concat(_, _, _)
concat(g, lo, hi) ==
  IF lo > hi THEN ""
  ELSE IF lo = hi THEN g[lo]
  ELSE concat(g, lo, (lo + hi) \div 2) \o concat(g, (lo + hi) \div 2 + 1, hi)

\* the sequences g[lo], ..., g[hi] joined
RECURSIVE flatten(_, _, _)
flatten(g, lo, hi) ==
  IF lo > hi THEN <<>>
  ELSE IF lo = hi THEN g[lo]
  ELSE flatten(g, lo, (lo + hi) \div 2) \o flatten(g, (lo + hi) \div 2 + 1, hi)

toLowerCaseChar(c) == IF c \in UpperChars THEN LowerOf[c] ELSE c

toLowerCase(s) == concat([i \in 1..Len(s) |-> toLowerCaseChar(At(s, i))], 1, Len(s))

\* the class \s of a JavaScript regular expression and of String.trim
isSpace(c) == c \in {" ", "\n", "\t", "\r"}

\* what "." does not match
isLineTerminator(c) == c \in {"\n", "\r"}

\* the class [a-z0-9]
isAlnum(c) == c \in LowerChars \/ c \in DigitChars

\* first index >= i of s that holds no whitespace (Len(s) + 1 if none)
RECURSIVE skipSpace(_, _)
skipSpace(s, i) ==
  IF i <= Len(s) /\ isSpace(At(s, i)) THEN skipSpace(s, i + 1) ELSE i

\* last index <= i of s that holds no whitespace (0 if none)
RECURSIVE skipSpaceBack(_, _)
skipSpaceBack(s, i) ==
  IF i >= 1 /\ isSpace(At(s, i)) THEN skipSpaceBack(s, i - 1) ELSE i

\* String.prototype.trim
trim(s) == SubSeq(s, skipSpace(s, 1), skipSpaceBack(s, Len(s)))

\* s.replace(/[^a-z0-9\s]/g, " ")
replaceNonAlnum(s) ==
  concat([i \in 1..Len(s) |->
            IF isAlnum(At(s, i)) \/ isSpace(At(s, i)) THEN At(s, i) ELSE " "],
         1, Len(s))

\* s.split(separator): the pieces of s between the separators seps, a
\* sequence of [from, to) index ranges in increasing order
piecesBetween(s, seps) ==
  [k \in 1..(Len(seps) + 1) |->
     SubSeq(s, IF k = 1 THEN 1 ELSE seps[k - 1].to,
               (IF k > Len(seps) THEN Len(s) + 1 ELSE seps[k].from) - 1)]

\* s.split(/\s+/): the separators are the maximal runs of whitespace
splitSpaces(s) ==
  piecesBetween(s,
    flatten([i \in 1..Len(s) |->
               IF isSpace(At(s, i)) /\ (i = 1 \/ ~isSpace(At(s, i - 1)))
                 THEN <<[from |-> i, to |-> skipSpace(s, i)]>>
                 ELSE <<>>],
            1, Len(s)))

\* s.split(" "): the separators are the single spaces
splitOnSpace(s) ==
  piecesBetween(s,
    flatten([i \in 1..Len(s) |->
               IF At(s, i) = " " THEN <<[from |-> i, to |-> i + 1]>> ELSE <<>>],
            1, Len(s)))

\* [...new Set(seq)]: the distinct elements, each where it is first seen
uniqueInOrder(seq) ==
  flatten([k \in 1..Len(seq) |->
             IF \E j \in 1..(k - 1) : seq[j] = seq[k] THEN <<>> ELSE <<seq[k]>>],
          1, Len(seq))

\* Array.prototype.slice(0, n)
sliceFirst(seq, n) == SubSeq(seq, 1, IF Len(seq) < n THEN Len(seq) ELSE n)

\* String.prototype.includes
includes(s, sub) ==
  \E i \in 1..(Len(s) - Len(sub) + 1) : SubSeq(s, i, i + Len(sub) - 1) = sub

-----------------------------------------------------------------------------
(* Pattern builder, src/server.js 19-38.                                   *)

STOPWORDS ==
  {"the","and","for","with","that","this","from","your","have","will","into","about",
   "after","before","when","what","how","why","who","are","was","were","is","a","an",
   "to","of","in","on","at","by","as","it","or","be","we","you","our","their","there",
   "any","can","do"}

MinKeywordLen == 3

MaxKeywords == 8

isKeyword(x) == Len(x) > MinKeywordLen /\ x \notin STOPWORDS

\* .filter(x => x.length > 3 && !STOPWORDS.has(x))
filterKeywords(seq) ==
  flatten([k \in 1..Len(seq) |-> IF isKeyword(seq[k]) THEN <<seq[k]>> ELSE <<>>],
          1, Len(seq))

\* a builder that takes the first MaxKeywords words before it drops the
\* repeated ones
buildPatternsSliceFirst(q) ==
  LET w == filterKeywords(splitSpaces(replaceNonAlnum(toLowerCase(q))))
  IN  <<q>> \o uniqueInOrder(sliceFirst(w, MaxKeywords))

buildPatternsFromQuestion(q) ==
  LET w == filterKeywords(splitSpaces(replaceNonAlnum(toLowerCase(q))))
  IN  <<q>> \o sliceFirst(uniqueInOrder(w), MaxKeywords)

-----------------------------------------------------------------------------
(* Matcher, the script of the chat page: src/server.js 380-418.            *)
(* A JavaScript number that is a ratio of two small integers is kept as    *)
(* the fraction [n, d] with d > 0; NaN (0/0) is its own value.  Two such   *)
(* ratios compare as doubles exactly as they compare as fractions.         *)

NaN == [n |-> 0, d |-> 0]

isNaN(x) == x.d = 0

Zero == [n |-> 0, d |-> 1]

\* hits / words.length: IEEE division, 0/0 is NaN
divide(a, b) == IF b = 0 THEN NaN ELSE [n |-> a, d |-> b]

\* x > y on numbers: false as soon as one side is NaN
greater(x, y) == ~isNaN(x) /\ ~isNaN(y) /\ x.n * y.d > y.n * x.d

\* Math.max(x, y): NaN as soon as one argument is NaN
mathMax(x, y) ==
  IF isNaN(x) \/ isNaN(y) THEN NaN ELSE IF greater(y, x) THEN y ELSE x

\* s.replace(/\s+/g, " "): the first character of a run of whitespace
\* becomes a space, the rest of the run goes
collapseSpaces(s) ==
  concat([i \in 1..Len(s) |->
            IF ~isSpace(At(s, i)) THEN At(s, i)
            ELSE IF i > 1 /\ isSpace(At(s, i - 1)) THEN "" ELSE " "],
         1, Len(s))

normalize(str) == trim(collapseSpaces(replaceNonAlnum(toLowerCase(str))))

\* .filter(Boolean) on strings: drops the empty ones
dropEmpty(seq) ==
  flatten([k \in 1..Len(seq) |-> IF seq[k] # "" THEN <<seq[k]>> ELSE <<>>], 1, Len(seq))

\* the words of a sequence that are no stop words
dropStopwords(ws) ==
  flatten([k \in 1..Len(ws) |-> IF ws[k] \in STOPWORDS THEN <<>> ELSE <<ws[k]>>],
          1, Len(ws))

\* a matcher that leaves the stop words of a pattern out of the count
contentWords(p) == dropStopwords(dropEmpty(splitOnSpace(normalize(p))))

\* normalize(p).split(" ").filter(Boolean)
patternWords(p) == dropEmpty(splitOnSpace(normalize(p)))

\* a count that takes a word found anywhere in the query for a hit
countSubstringHits(u, words) ==
  Cardinality({k \in 1..Len(words) : includes(u, words[k])})

\* words.filter(w => u.includes(" " + w + " ")).length
countHits(u, words) ==
  Cardinality({k \in 1..Len(words) : includes(u, " " \o words[k] \o " ")})

\* hits / words.length for the words of one pattern
coverage(u, words) == divide(countHits(u, words), Len(words))

\* the loop of scoreMatch, for the patterns from index k on
RECURSIVE scoreLoop(_, _, _, _)
scoreLoop(u, patterns, k, best) ==
  IF k > Len(patterns) THEN best
  ELSE scoreLoop(u, patterns, k + 1,
                 mathMax(best, coverage(u, patternWords(patterns[k]))))

scoreMatch(user, patterns) ==
  scoreLoop(" " \o normalize(user) \o " ", patterns, 1, Zero)

\* a scan that lets a later entry of equal score replace the earlier one
betterOrEqual(best, i, s) ==
  IF greater(s, best.s) \/ (~isNaN(s) /\ s.n * best.s.d = best.s.n * s.d)
    THEN [i |-> i, s |-> s]
    ELSE best

\* if (s > best.s) best = { i, s }
better(best, i, s) == IF greater(s, best.s) THEN [i |-> i, s |-> s] ELSE best

\* the scan of getAnswer: best = {i, s}, i counted from 0 as in the source
RECURSIVE bestScan(_, _, _, _)
bestScan(txt, faq, i, best) ==
  IF i >= Len(faq) THEN best
  ELSE bestScan(txt, faq, i + 1, better(best, i, scoreMatch(txt, faq[i + 1].patterns)))

ThresholdNum == 35

ThresholdDen == 100

Threshold == [n |-> ThresholdNum, d |-> ThresholdDen]

\* Math.round(x * 100): the nearest integer, halves up (x is not NaN here)
roundPercent(x) == (200 * x.n + x.d) \div (2 * x.d)

LowConfidenceText == "I couldn't confidently match that. Please rephrase."

\* lines 409-417: what getAnswer returns once the scan has left best
answerFor(faq, best) ==
  IF greater(best.s, Threshold)
    THEN [text |-> faq[best.i + 1].a,
          meta |-> <<"Match confidence", roundPercent(best.s)>>]
    ELSE [text |-> LowConfidenceText, meta |-> <<"Low confidence">>]

getAnswer(txt, faq) == answerFor(faq, bestScan(txt, faq, 0, [i |-> -1, s |-> Zero]))

-----------------------------------------------------------------------------
(* Structured segmentation, src/server.js 49-65.  The regular expression   *)
(*   /(?:^|\n)\s*Q:\s*(.+?)\s*\nA:\s*([\s\S]*?)(?=\nQ:|$)/gi               *)
(* is matched as a backtracking matcher does: alternatives left to right,  *)
(* greedy quantifiers longest first, lazy ones shortest first.  No m flag: *)
(* ^ is the start of the text and $ its end.                               *)

NoMatch == [ok |-> FALSE]

\* the literal marker (Q or A, then a colon) at index i, under the i flag
markerAt(s, i, letter) ==
  /\ i + 1 <= Len(s)
  /\ toLowerCaseChar(At(s, i)) = letter
  /\ At(s, i + 1) = ":"

\* \n then the marker at index i
lineMarkerAt(s, i, letter) == i <= Len(s) /\ At(s, i) = "\n" /\ markerAt(s, i + 1, letter)

\* first index >= i of s that "." does not match (Len(s) + 1 if none)
lineEnd(s, i) == Min({e \in i..Len(s) : isLineTerminator(At(s, e))} \cup {Len(s) + 1})

\* A:\s*([\s\S]*?)(?=\nQ:|$) with "A:" ending at index a - 1: the greedy \s*
\* takes the whole run of whitespace (the body can always reach $), the lazy
\* body stops at the first \nQ: at or after its start
bodyFrom(s, a) ==
  LET b == skipSpace(s, a)
  IN  [from |-> b,
       to   |-> Min({e \in b..Len(s) : lineMarkerAt(s, e, "q")} \cup {Len(s) + 1})]

\* \s*\nA: tried at index e: the index of the \n it ends on, or 0.  The
\* greedy \s* is tried longest first
answerMarkerFrom(s, e) ==
  LET ws == {w \in e..(skipSpace(s, e) - 1) : lineMarkerAt(s, w, "a")}
  IN  IF ws = {} THEN 0 ELSE Max(ws)

\* the element of least index of ms that matched, if any
leftmostOk(ms) ==
  LET hits == {i \in DOMAIN ms : ms[i].ok}
  IN  IF hits = {} THEN NoMatch ELSE ms[Min(hits)]

\* the element of greatest index of ms that matched, if any
rightmostOk(ms) ==
  LET hits == {i \in DOMAIN ms : ms[i].ok}
  IN  IF hits = {} THEN NoMatch ELSE ms[Max(hits)]

\* the lazy group (.+?) starting at g, given for each index e it may end on
\* the index marks[e] where \s*\nA: then matches (0 if it does not): the
\* group grows one character at a time and the first end that works wins
shortestLabel(g, marks) ==
  LET ends == {e \in DOMAIN marks : marks[e] # 0}
  IN  IF ends = {} THEN NoMatch
      ELSE [ok |-> TRUE, from |-> g, to |-> Min(ends), nl |-> marks[Min(ends)]]

\* (.+?)\s*\nA: with the group starting at index g; the group holds only
\* what "." matches
labelFrom(s, g) ==
  shortestLabel(g, [e \in g..(lineEnd(s, g) - 1) |-> answerMarkerFrom(s, e + 1)])

\* Q:\s*(.+?)... with "Q:" ending at index c - 1: the greedy \s* gives back
\* one character at a time, so the group starts as far right as it can
afterQuestionMarker(s, c) ==
  rightmostOk([g \in c..skipSpace(s, c) |-> labelFrom(s, g)])

\* the captures of a match, m and b being what matched up to "A:" and after it
captures(s, m, b) ==
  [ok  |-> TRUE,
   g1  |-> SubSeq(s, m.from, m.to),
   g2  |-> SubSeq(s, b.from, b.to - 1),
   end |-> b.to]

withBody(s, m) == IF ~m.ok THEN NoMatch ELSE captures(s, m, bodyFrom(s, m.nl + 3))

\* Q:... with the marker expected at index k
blockAtMarker(s, k) ==
  IF ~markerAt(s, k, "q") THEN NoMatch ELSE withBody(s, afterQuestionMarker(s, k + 2))

\* \s*Q:... from index p: only the whole run of whitespace can precede Q
blockFrom(s, p) == blockAtMarker(s, skipSpace(s, p))

\* (?:^|\n) at index i: the indices the rest may start at, ^ first
startAlternatives(s, i) ==
  (IF i = 1 THEN <<i>> ELSE <<>>)
    \o (IF i <= Len(s) /\ At(s, i) = "\n" THEN <<i + 1>> ELSE <<>>)

blocksFrom(s, alts) == [k \in 1..Len(alts) |-> blockFrom(s, alts[k])]

\* one attempt of the whole expression at index i
matchAt(s, i) == leftmostOk(blocksFrom(s, startAlternatives(s, i)))

\* regex.exec(text) from lastIndex: the leftmost index where an attempt succeeds
exec(s, lastIndex) == leftmostOk([i \in lastIndex..(Len(s) + 1) |-> matchAt(s, i)])

Entry(q, a) == [q |-> q, a |-> a, patterns |-> buildPatternsFromQuestion(q)]

\* the while loop: lastIndex is the index after the match
RECURSIVE execLoop(_, _, _)
RECURSIVE loopBody(_, _, _)
loopBody(text, result, m) ==
  IF ~m.ok THEN result
  ELSE execLoop(text, m.end, Append(result, Entry(trim(m.g1), trim(m.g2))))

execLoop(text, lastIndex, result) == loopBody(text, result, exec(text, lastIndex))

parseStructuredQA(text) == execLoop(text, 1, <<>>)

-----------------------------------------------------------------------------
(* Fallback segmentation, src/server.js 73-83.                             *)

\* first index >= i of s that holds no "\n"
RECURSIVE skipNewlines(_, _)
skipNewlines(s, i) ==
  IF i <= Len(s) /\ At(s, i) = "\n" THEN skipNewlines(s, i + 1) ELSE i

\* text.split(/\n{2,}/): the separators are the maximal runs of two or more "\n"
splitParagraphs(s) ==
  piecesBetween(s,
    flatten([i \in 1..Len(s) |->
               IF /\ At(s, i) = "\n"
                  /\ i < Len(s) /\ At(s, i + 1) = "\n"
                  /\ (i = 1 \/ At(s, i - 1) # "\n")
                 THEN <<[from |-> i, to |-> skipNewlines(s, i)]>>
                 ELSE <<>>],
            1, Len(s)))

\* .map(p => p.trim())
trimAll(seq) == [k \in 1..Len(seq) |-> trim(seq[k])]

isTerminator(c) == c \in {".", "?", "!"}

\* (.+?[\.\?!])\s attempted at index i: the index of the terminator the lazy
\* group ends on, or 0 when the attempt fails.  The characters before the
\* terminator are matched by ".", and there is at least one
sentenceEnd(p, i) ==
  LET ends == {e \in (i + 1)..(lineEnd(p, i) - 1) :
                 /\ isTerminator(At(p, e))
                 /\ e + 1 <= Len(p)
                 /\ isSpace(At(p, e + 1))}
  IN  IF ends = {} THEN 0 ELSE Min(ends)

\* the group of the leftmost successful attempt, given for each index i the
\* end ends[i] of the attempt made there; p itself when every attempt fails
leftmostSentence(p, ends) ==
  LET hits == {i \in DOMAIN ends : ends[i] # 0}
  IN  IF hits = {} THEN p ELSE SubSeq(p, Min(hits), ends[Min(hits)])

\* (p.match(/(.+?[\.\?!])\s/) || [null, p])[1]
firstSentence(p) == leftmostSentence(p, [i \in 1..Len(p) |-> sentenceEnd(p, i)])

MaxLabelLen == 120

LabelCut == 117

Ellipsis == "~"

summaryLabel(first) ==
  IF Len(first) > MaxLabelLen THEN SubSeq(first, 1, LabelCut) \o Ellipsis ELSE first

paragraphEntry(p) == Entry(summaryLabel(firstSentence(p)), p)

entriesOf(ps) == [k \in 1..Len(ps) |-> paragraphEntry(ps[k])]

parseUnstructured(text) == entriesOf(dropEmpty(trimAll(splitParagraphs(text))))

-----------------------------------------------------------------------------
(* Loading, src/server.js 89-142.  The file on disk is a record: exists    *)
(* (fs.existsSync), readable (pdf-extraction resolves on its bytes rather  *)
(* than rejecting) and text (the data.text it resolves with).              *)

FallbackCap == 300

Log(msg, n) == [msg |-> msg, n |-> n]

\* loadPdfKnowledge on a missing file: lines 99-102
missingResult == [kb |-> <<>>, log |-> Log("No PDF found", 0)]

\* lines 121-123
fallbackResult(unstructured) ==
  [kb |-> unstructured, log |-> Log("Loaded fallback KB", Len(unstructured))]

\* a load whose fallback keeps every paragraph
uncappedResult(text, structured) ==
  IF Len(structured) # 0
    THEN [kb |-> structured, log |-> Log("Loaded structured KB", Len(structured))]
    ELSE fallbackResult(parseUnstructured(text))

\* lines 114-123, structured being parseStructuredQA(text)
strategyResult(text, structured) ==
  IF Len(structured) # 0
    THEN [kb |-> structured, log |-> Log("Loaded structured KB", Len(structured))]
    ELSE fallbackResult(sliceFirst(parseUnstructured(text), FallbackCap))

\* lines 108-123, text being (data.text || "").trim()
textResult(text) ==
  IF text = ""
    THEN [kb |-> <<>>, log |-> Log("PDF contained no extractable text", 0)]
    ELSE strategyResult(text, parseStructuredQA(text))

\* a load without the catch: the rejection of pdf-extraction leaves the
\* function, which logs nothing of its own
loadWithoutCatch(f) ==
  IF ~f.readable THEN [kb |-> <<>>, log |-> Log("rejected", 0)]
  ELSE textResult(trim(f.text))

\* loadPdfKnowledge from the bytes read at line 106 on: what the promise of
\* the load resolves with and the last line it logs
loadFromBytes(f) ==
  IF ~f.readable THEN [kb |-> <<>>, log |-> Log("PDF parsing failed", 0)]
  ELSE textResult(trim(f.text))

\* the whole of loadPdfKnowledge as a function of the file it finds
loadPdfKnowledge(f) == IF ~f.exists THEN missingResult ELSE loadFromBytes(f)

\* a response cut short: the last entry is missing
truncatedRoundTrip(kb) ==
  [k \in 1..(Len(kb) - 1) |-> [q |-> kb[k].q, a |-> kb[k].a, patterns |-> kb[k].patterns]]

\* JSON.stringify(KB) on the server, r.json() on the page: an array of
\* objects with the three string-valued properties q, a and patterns
jsonRoundTrip(kb) ==
  [k \in 1..Len(kb) |-> [q |-> kb[k].q, a |-> kb[k].a, patterns |-> kb[k].patterns]]

-----------------------------------------------------------------------------
(* The documents, questions and bounds of the model.                       *)

Absent == [exists |-> FALSE, readable |-> FALSE, text |-> ""]

Corrupt == [exists |-> TRUE, readable |-> FALSE, text |-> ""]

Pdf(t) == [exists |-> TRUE, readable |-> TRUE, text |-> t]

CabDocument ==
  "Q: What is a CAB?\nA: A Change Advisory Board reviews RFCs.\nQ: What is lead time?\nA: Minimum notice required before a change window."

Texts ==
  { CabDocument,
    "Q: ???\nA: Ask the CAB.\nQ: Rollback plan\nA:",
    "Lead time. Two days of notice.\n\nFreeze period",
    " \n" }

Files == {Absent, Corrupt} \cup {Pdf(t) : t \in Texts}

\* what the user may type into the input box
Inputs == {"tell me about the CAB", " lead time? ", "   "}

\* loads in flight at once
MaxPending == 2

NoLog == Log("", 0)

NoReply == [txt |-> "", ans |-> [text |-> "", meta |-> <<>>]]

\* the results of the loads and of the answers the model can ask for, each
\* computed once
Built == [f \in Files |-> loadPdfKnowledge(f)]

Queries == {trim(input) : input \in Inputs} \ {""}

Snapshots == {<<>>} \cup {jsonRoundTrip(Built[f].kb) : f \in Files}

AnswerOf == [txt \in Queries, faq \in Snapshots |-> getAnswer(txt, faq)]

NoCall == [op |-> "none"]

-----------------------------------------------------------------------------
(* The server and one chat page.                                           *)

Init ==
  /\ file \in Files
  /\ dirty = FALSE
  /\ started = FALSE
  /\ KB = <<>>
  /\ pending = <<>>
  /\ console = NoLog
  /\ FAQ = <<>>
  /\ reply = NoReply
  /\ call = NoCall

\* KB = await loadPdfKnowledge(): a missing file resolves in the same turn of
\* the event loop (return [] at line 101, no I/O awaited), so KB is assigned
\* before any other callback runs; otherwise the bytes are read now (line 106)
\* and the load stays in flight until pdf-extraction settles
StartLoad ==
  IF ~file.exists
    THEN /\ KB' = Built[file].kb
         /\ console' = Built[file].log
         /\ pending' = pending
    ELSE /\ Len(pending) < MaxPending
         /\ pending' = Append(pending, file)
         /\ UNCHANGED <<KB, console>>

\* lines 133-135, run once as the module is evaluated
InitialLoad ==
  /\ ~started
  /\ started' = TRUE
  /\ StartLoad
  /\ UNCHANGED <<file, dirty, FAQ, reply, call>>

\* the document is replaced, removed or damaged on disk
FileChange ==
  /\ started
  /\ \E f \in Files \ {file} : file' = f
  /\ dirty' = TRUE
  /\ UNCHANGED <<started, KB, pending, console, FAQ, reply, call>>

\* the fs.watchFile listener, lines 139-142: the poll has seen the change
WatchCallback ==
  /\ started
  /\ dirty
  /\ dirty' = FALSE
  /\ StartLoad
  /\ UNCHANGED <<file, started, FAQ, reply, call>>

\* pdf-extraction settles for the load at position i (in no fixed order), the
\* rest of loadPdfKnowledge runs and the awaiting assignment stores its result
LoadComplete ==
  /\ \E i \in 1..Len(pending) :
       LET r == Built[pending[i]]
       IN  /\ KB' = r.kb
           /\ console' = r.log
           /\ pending' = SubSeq(pending, 1, i - 1) \o SubSeq(pending, i + 1, Len(pending))
  /\ UNCHANGED <<file, dirty, started, FAQ, reply, call>>

\* the page is (re)loaded: GET /kb is answered with JSON.stringify(KB), lines
\* 479-482, and the page stores the parsed body in FAQ, lines 372-374
FetchKb ==
  /\ started
  /\ FAQ' = jsonRoundTrip(KB)
  /\ UNCHANGED <<file, dirty, started, KB, pending, console, reply, call>>

\* a question is submitted and, 300 ms later, answered: lines 449-461.  An
\* empty input is dropped; the answer is computed when the timer fires,
\* against the FAQ the page holds then
Ask ==
  /\ \E input \in Inputs :
       LET txt == trim(input)
       IN  /\ txt # ""
           /\ reply' = [txt |-> txt, ans |-> AnswerOf[txt, FAQ]]
  /\ UNCHANGED <<file, dirty, started, KB, pending, console, FAQ, call>>

Next ==
  \/ InitialLoad
  \/ FileChange
  \/ WatchCallback
  \/ LoadComplete
  \/ FetchKb
  \/ Ask

Spec == Init /\ [][Next]_vars

-----------------------------------------------------------------------------
(* The functions applied directly, one application per behaviour, on       *)
(* arguments drawn from bounded sets.  call records the function, its      *)
(* arguments and what it returned.                                         *)

\* the sequences over S of length at most n
SeqsUpTo(S, n) == UNION {[1..k -> S] : k \in 0..n}

\* Array.prototype.join
join(ws, sep) ==
  concat([k \in 1..Len(ws) |-> IF k = 1 THEN ws[k] ELSE sep \o ws[k]], 1, Len(ws))

\* eight distinct keywords, and the words a question may go on with
KeywordRun == <<"alpha", "bravo", "charlie", "delta", "echo1", "foxtrot", "golf", "hotel">>

Vocabulary == {"alpha", "Kilo", "kilo", "e-mail", "what", "cab", "Roll-back?", " #\n"}

MaxExtraWords == 2

Questions ==
  { join(SubSeq(KeywordRun, 1, k) \o ws, " ") :
      k \in 0..Len(KeywordRun), ws \in SeqsUpTo(Vocabulary, MaxExtraWords) }

\* arguments of scoreMatch
Users == {"", "cab", "the CAB?", "category", "lead  time"}

PatternPool == {"cat", "What is a CAB?", "???", "lead time", "#"}

MaxPatterns == 2

\* knowledge bases for getAnswer: entry k has the k-th body, so that the body
\* returned tells which entry was selected
Label20 == "b c d e f g h j k l m n p q r s t u v w"

Label8 == "b c d e f g h j"

Labels == {"cab rfc pir", "lead time", "???", Label20, Label8}

Bodies == <<"first", "second", "third", "fourth">>

MaxFaq == 2

FaqOf(ls) == [k \in 1..Len(ls) |-> Entry(ls[k], Bodies[k])]

Faqs ==
  {FaqOf(ls) : ls \in SeqsUpTo(Labels, MaxFaq)}
    \cup {jsonRoundTrip(parseStructuredQA(CabDocument))}

AskTexts ==
  { "tell me about the CAB", "cab", "cab rfc", "lead", "b c d", "b c d e f g h",
    "b c d e f g h j", "", "zzz" }

\* documents written block by block from (question, answer) pairs
QuestionTexts == {"x", " y z "}

AnswerTexts == {"b", "", " c\nd "}

QAPairs == {<<q, a>> : q \in QuestionTexts, a \in AnswerTexts}

MaxBlocks == 2

\* how the markers of a document are written: the indentation of the Q: lines
\* and of the A: lines, and the case of the two letters
Plain == [qIndent |-> "", q |-> "Q", aIndent |-> "", a |-> "A"]

Styles ==
  { Plain,
    [Plain EXCEPT !.q = "q"],
    [Plain EXCEPT !.a = "a"],
    [Plain EXCEPT !.qIndent = "  "],
    [Plain EXCEPT !.aIndent = "\t"] }

block(pair, style) ==
  style.qIndent \o style.q \o ": " \o pair[1] \o "\n"
    \o style.aIndent \o style.a \o ": " \o pair[2]

document(pairs, style) ==
  join([k \in 1..Len(pairs) |-> block(pairs[k], style)], "\n")

\* documents of many paragraphs, none with a marker
Paragraph(k) ==
  "p" \o At(Digits, ((k \div 100) % 10) + 1) \o At(Digits, ((k \div 10) % 10) + 1)
      \o At(Digits, (k % 10) + 1)

ManyParagraphs(n) == join([k \in 1..n |-> Paragraph(k)], "\n\n")

LoadFiles ==
  Files \cup {Pdf(ManyParagraphs(n)) : n \in {FallbackCap, FallbackCap + 1}}

InitFn ==
  /\ file = Absent
  /\ dirty = FALSE
  /\ started = FALSE
  /\ KB = <<>>
  /\ pending = <<>>
  /\ console = NoLog
  /\ FAQ = <<>>
  /\ reply = NoReply
  /\ call = NoCall

CallBuildPatterns ==
  /\ call = NoCall
  /\ \E q \in Questions :
       call' = [op |-> "buildPatternsFromQuestion", q |-> q,
                ret |-> buildPatternsFromQuestion(q)]
  /\ UNCHANGED sysVars

CallScoreMatch ==
  /\ call = NoCall
  /\ \E user \in Users, patterns \in SeqsUpTo(PatternPool, MaxPatterns) :
       call' = [op |-> "scoreMatch", user |-> user, patterns |-> patterns,
                ret |-> scoreMatch(user, patterns)]
  /\ UNCHANGED sysVars

\* getAnswer(txt) with the page's FAQ holding faq; best is its local after
\* the scan
CallGetAnswer ==
  /\ call = NoCall
  /\ \E txt \in AskTexts, faq \in Faqs :
       call' = [op |-> "getAnswer", txt |-> txt, faq |-> faq,
                best |-> bestScan(txt, faq, 0, [i |-> -1, s |-> Zero]),
                ret |-> getAnswer(txt, faq)]
  /\ UNCHANGED sysVars

CallParseStructuredQA ==
  /\ call = NoCall
  /\ \E pairs \in SeqsUpTo(QAPairs, MaxBlocks) \ {<<>>}, style \in Styles :
       call' = [op |-> "parseStructuredQA", pairs |-> pairs, style |-> style,
                text |-> document(pairs, style),
                ret |-> parseStructuredQA(document(pairs, style))]
  /\ UNCHANGED sysVars

CallLoadPdfKnowledge ==
  /\ call = NoCall
  /\ \E f \in LoadFiles :
       call' = [op |-> "loadPdfKnowledge", f |-> f, ret |-> loadPdfKnowledge(f)]
  /\ UNCHANGED sysVars

\* n letters in a row
Letters(n) == concat([k \in 1..n |-> At(LowerAlpha, ((k - 1) % 26) + 1)], 1, n)

\* single paragraphs, trimmed and not empty: short and long first sentences,
\* several lines, terminators at the start, inside a number and doubled
Paragraphs ==
  { "Lead time. Two days of notice.",
    "Freeze period",
    "Wait 3.5 days",
    "Really?! Yes.",
    "First line.\nSecond line",
    "line one\nline two. more",
    ". foo. bar",
    "? x",
    Letters(MaxLabelLen - 1) \o ". x",
    Letters(MaxLabelLen) \o ". x",
    Letters(MaxLabelLen + 1) }

CallParseUnstructured ==
  /\ call = NoCall
  /\ \E p \in Paragraphs :
       call' = [op |-> "parseUnstructured", text |-> p, ret |-> parseUnstructured(p)]
  /\ UNCHANGED sysVars

NextFn ==
  \/ CallBuildPatterns
  \/ CallScoreMatch
  \/ CallGetAnswer
  \/ CallParseStructuredQA
  \/ CallLoadPdfKnowledge
  \/ CallParseUnstructured

SpecFn == InitFn /\ [][NextFn]_vars

-----------------------------------------------------------------------------
(* Properties.  Those about one function are stated on call, under SpecFn; *)
(* those about the server and the page on the system's state, under Spec.  *)

CabQuery == "tell me about the CAB"

CabAnswer == "A Change Advisory Board reviews RFCs."

\* the application of getAnswer the scenario describes
isCabCall ==
  /\ call.op = "getAnswer"
  /\ call.txt = CabQuery
  /\ call.faq = jsonRoundTrip(parseStructuredQA(CabDocument))

\* C1, as stated: the two-block document parses into exactly 2 entries, and
\* the query "tell me about the CAB" selects entry 0 with a score strictly
\* greater than 0.35, so that the answer returned is "A Change Advisory Board
\* reviews RFCs." and not the low-confidence fallback.
C1_ScenarioAnswers ==
  isCabCall =>
    /\ Len(call.faq) = 2
    /\ call.best.i = 0
    /\ call.best.s.d > 0
    /\ 100 * call.best.s.n > 35 * call.best.s.d
    /\ call.ret.text = CabAnswer

\* C1, amended: the two-block document parses into exactly 2 entries; the
\* query "tell me about the CAB" leaves entry 0 as the best entry, with the
\* score 1/4 (one word of "what is a cab" out of four), which is not greater
\* than 0.35, so that the low-confidence fallback is returned.
C1_ScenarioFallsBack ==
  isCabCall =>
    /\ Len(call.faq) = 2
    /\ call.faq[1].a = CabAnswer
    /\ call.best.i = 0
    /\ call.best.s.d > 0
    /\ 4 * call.best.s.n = call.best.s.d
    /\ call.ret = [text |-> "I couldn't confidently match that. Please rephrase.",
                   meta |-> <<"Low confidence">>]

C1_Witness ==
  /\ isCabCall
  /\ call.faq[1].q = "What is a CAB?"
  /\ call.faq[2].q = "What is lead time?"
  /\ call.ret.text # CabAnswer

\* a load ends without a knowledge base: the file is missing (the load ends
\* in the turn that starts it), extraction throws, or the text is empty
FailedLoadEnds ==
  \/ (InitialLoad \/ WatchCallback) /\ ~file.exists
  \/ LoadComplete /\ console'.msg \in {"PDF parsing failed",
                                       "PDF contained no extractable text"}

\* C2, as stated: a reload whose extraction fails (missing file, extraction
\* throws) or yields no entries (empty text) leaves the knowledge base
\* unchanged: if KB held entries before such a reload, it holds the same
\* entries once the reload has completed.
C2_FailedReloadKeepsKB == [][FailedLoadEnds /\ KB # <<>> => KB' = KB]_vars

\* FAQ, the body of a /kb response, is entry for entry the knowledge base kb
sameEntries(kb) ==
  /\ Len(FAQ) = Len(kb)
  /\ \A k \in 1..Len(kb) :
       /\ FAQ[k].q = kb[k].q
       /\ FAQ[k].a = kb[k].a
       /\ FAQ[k].patterns = kb[k].patterns

\* C3: whatever the interleaving of the initial load and the file-watch
\* reloads with GET /kb requests, every /kb response is a complete knowledge
\* base: the empty one KB holds at start or after a failed load, or all the
\* entries, in order, that one load built from one version of the file.
C3_KbResponseComplete ==
  \/ FAQ = <<>>
  \/ \E f \in Files : sameEntries(Built[f].kb)

\* the page holds the complete build of one version of the file while the
\* server has moved on to another and a further load is in flight
C3_Witness ==
  /\ FAQ # <<>>
  /\ KB # <<>>
  /\ ~sameEntries(KB)
  /\ pending # <<>>
  /\ \E f \in Files : sameEntries(Built[f].kb)

\* C9, as stated: every entry of the knowledge base, whichever strategy
\* produced it, has a non-empty label q, a non-empty body a, and a patterns
\* sequence of 1 to 9 strings whose first element is q.
C9_EntriesWellFormed ==
  \A k \in 1..Len(KB) :
    /\ KB[k].q # ""
    /\ KB[k].a # ""
    /\ Len(KB[k].patterns) \in 1..9
    /\ KB[k].patterns[1] = KB[k].q

\* C4, as stated: for every query and every pattern sequence scoreMatch
\* returns a number in [0,1], a pattern that normalizes to zero words counting
\* for coverage 0, and an empty query scores 0.
C4_ScoreInUnitInterval ==
  call.op = "scoreMatch" =>
    /\ call.ret.d > 0
    /\ 0 <= call.ret.n
    /\ call.ret.n <= call.ret.d
    /\ (call.user = "" => call.ret.n = 0)

\* the scores of the entries of faq for txt, an entry whose score is not a
\* number counting for 0: it is greater than nothing
entryScores(txt, faq) ==
  [k \in 1..Len(faq) |->
     LET s == scoreMatch(txt, faq[k].patterns)
     IN  IF s.d = 0 THEN [n |-> 0, d |-> 1] ELSE s]

\* the entries getAnswer may select: a score strictly greater than 0.35 that
\* no other entry exceeds
confidentMaxima(sc) ==
  { i \in DOMAIN sc :
      /\ 100 * sc[i].n > 35 * sc[i].d
      /\ \A j \in DOMAIN sc : sc[j].n * sc[i].d <= sc[i].n * sc[j].d }

\* ret is the answer for entry w of faq, whose score is x: its body, and the
\* integer nearest to 100 x (the upper one of two) as the confidence
answersWith(ret, faq, w, x) ==
  /\ ret.text = faq[w].a
  /\ Len(ret.meta) = 2
  /\ ret.meta[1] = "Match confidence"
  /\ 2 * x.d * ret.meta[2] <= 200 * x.n + x.d
  /\ 200 * x.n + x.d < 2 * x.d * (ret.meta[2] + 1)

\* what C5 says of the result ret for the scores sc, the candidates being ws
selectsFrom(ret, faq, sc, ws) ==
  IF ws # {}
    THEN answersWith(ret, faq, Min(ws), sc[Min(ws)])
    ELSE ret = [text |-> "I couldn't confidently match that. Please rephrase.",
                meta |-> <<"Low confidence">>]

\* C5: getAnswer returns the body of the lowest-indexed entry whose score is
\* the maximum over all entries, with round(score*100) as the confidence, if
\* and only if that maximum is strictly greater than 0.35; otherwise (empty
\* knowledge base, maximum equal to 0.35 or below) it returns the
\* low-confidence fallback.
C5_GetAnswerSelection ==
  call.op = "getAnswer" =>
    selectsFrom(call.ret, call.faq, entryScores(call.txt, call.faq),
                confidentMaxima(entryScores(call.txt, call.faq)))

\* two entries tie at 3/8: the first is returned, with 37.5 rounded to 38
C5_Witness ==
  /\ call.op = "getAnswer"
  /\ call.txt = "b c d"
  /\ Len(call.faq) = 2
  /\ call.faq[1].q = Label8
  /\ call.faq[2].q = Label8
  /\ call.ret = [text |-> "first", meta |-> <<"Match confidence", 38>>]

\* the tokens of q: the maximal runs of characters that are letters or digits
\* once lowercased, each with the index it starts at
tokensOf(q) ==
  LET ok(i) == i >= 1 /\ i <= Len(q) /\ isAlnum(toLowerCaseChar(At(q, i)))
  IN  { [at |-> i, word |-> toLowerCase(SubSeq(q, i, j))] :
          <<i, j>> \in { ij \in (1..Len(q)) \X (1..Len(q)) :
                           /\ ij[1] <= ij[2]
                           /\ \A k \in ij[1]..ij[2] : ok(k)
                           /\ ~ok(ij[1] - 1)
                           /\ ~ok(ij[2] + 1) } }

\* the tokens that count as keywords
keywordTokens(q) == {t \in tokensOf(q) : Len(t.word) > 3 /\ t.word \notin STOPWORDS}

\* where a keyword is first seen
firstSeen(ts, w) == Min({t.at : t \in {u \in ts : u.word = w}})

\* kw is the first 8 distinct words of the tokens ts, in first-seen order
firstEightOf(kw, ts) ==
  /\ Len(kw) = Min({8, Cardinality({t.word : t \in ts})})
  /\ \A k \in 1..Len(kw) : kw[k] \in {t.word : t \in ts}
  /\ \A k \in 1..Len(kw), l \in 1..Len(kw) :
       k < l => firstSeen(ts, kw[k]) < firstSeen(ts, kw[l])
  /\ \A w \in {t.word : t \in ts} :
       (\A k \in 1..Len(kw) : kw[k] # w) =>
         \A k \in 1..Len(kw) : firstSeen(ts, kw[k]) < firstSeen(ts, w)

\* C6: buildPatternsFromQuestion(q) is q itself, verbatim, followed by the
\* first 8 distinct tokens, in first-seen order, of lowercase(q) with the
\* non-alphanumerics replaced by spaces and split on whitespace, keeping only
\* the tokens longer than 3 that are no stop words; its length is between 1
\* and 9 and no keyword is repeated.
C6_PatternsOfQuestion ==
  call.op = "buildPatternsFromQuestion" =>
    /\ Len(call.ret) \in 1..9
    /\ call.ret[1] = call.q
    /\ \A k \in 2..Len(call.ret), l \in 2..Len(call.ret) :
         k # l => call.ret[k] # call.ret[l]
    /\ firstEightOf(SubSeq(call.ret, 2, Len(call.ret)), keywordTokens(call.q))

\* ten keyword tokens, nine of them distinct: the repeated one is dropped
\* first and the ninth distinct one is cut off
C6_Witness ==
  /\ call.op = "buildPatternsFromQuestion"
  /\ call.q = "alpha bravo charlie delta echo1 foxtrot golf hotel alpha Kilo"
  /\ call.ret = <<call.q>> \o KeywordRun

\* the entries are, in order, the trimmed questions and answers of pairs
entriesOfPairs(entries, pairs) ==
  /\ Len(entries) = Len(pairs)
  /\ \A k \in 1..Len(pairs) :
       /\ entries[k].q = trim(pairs[k][1])
       /\ entries[k].a = trim(pairs[k][2])

\* C7, as stated: a document built from N >= 1 (question, answer) pairs with
\* single-line questions, as the blocks "Q: question\nA: answer" separated by
\* newlines, is parsed into exactly N entries in document order, entry i
\* having q = trim(question_i) and a = trim(answer_i).
C7_RoundTrip ==
  call.op = "parseStructuredQA" /\ call.style = Plain =>
    entriesOfPairs(call.ret, call.pairs)

\* two sequences of entries with the same labels and bodies, in order
sameLabelsAndBodies(xs, ys) ==
  /\ Len(xs) = Len(ys)
  /\ \A k \in 1..Len(ys) : xs[k].q = ys[k].q /\ xs[k].a = ys[k].a

\* C8, as stated: the question marker and the answer marker are recognised
\* whatever their case and whatever whitespace precedes them on their line:
\* a document whose Q: lines or A: lines are indented, or whose markers are in
\* lower case, yields the same number of entries, with the same trimmed
\* labels and bodies, as the document written plainly.  (Stated here for
\* documents none of whose answers is blank.)
C8_MarkerTolerance ==
  call.op = "parseStructuredQA" /\ (\A k \in 1..Len(call.pairs) : trim(call.pairs[k][2]) # "") =>
    sameLabelsAndBodies(call.ret, parseStructuredQA(document(call.pairs, Plain)))

\* kb is the first 300 entries of xs
firstThreeHundred(kb, xs) ==
  /\ Len(kb) = Min({300, Len(xs)})
  /\ \A k \in 1..Len(kb) : kb[k] = xs[k]

\* what C10 says of the knowledge base kb loaded from text, structured being
\* parseStructuredQA(text)
builtBy(kb, text, structured) ==
  IF structured # <<>>
    THEN kb = structured
    ELSE firstThreeHundred(kb, parseUnstructured(text))

\* C10: for a non-empty extracted text the knowledge base a load produces is
\* exactly parseStructuredQA(text) when that is non-empty, and otherwise
\* exactly the first 300 entries of parseUnstructured(text): the fallback is
\* not used when the structured parse yields an entry, and a fallback-built
\* knowledge base has at most 300 entries (301 paragraphs give exactly 300).
C10_StrategyAndCap ==
  call.op = "loadPdfKnowledge" /\ call.f.exists /\ call.f.readable /\ trim(call.f.text) # "" =>
    /\ builtBy(call.ret.kb, trim(call.f.text), parseStructuredQA(trim(call.f.text)))
    /\ (call.ret.log.msg = "Loaded fallback KB" => Len(call.ret.kb) <= 300)
    /\ (call.f.text = ManyParagraphs(301) => Len(call.ret.kb) = 300)

\* 301 paragraphs: the first 300 are kept, the last one is dropped
C10_Witness ==
  /\ call.op = "loadPdfKnowledge"
  /\ call.ret.log = Log("Loaded fallback KB", 300)
  /\ call.f.text = ManyParagraphs(301)
  /\ call.ret.kb[300].a = "p300"
  /\ call.ret.kb[1].a = "p001"

\* the lines loadPdfKnowledge logs before it returns without entries
FailureMessages ==
  {"No PDF found", "PDF parsing failed", "PDF contained no extractable text"}

\* FAQ is an array of objects with the properties q, a and patterns
isEntryArray ==
  \A k \in 1..Len(FAQ) : DOMAIN FAQ[k] = {"q", "a", "patterns"}

\* C11: loadPdfKnowledge never rejects or throws: every load that ends has
\* returned through one of the function's return statements, and when the
\* document is absent, extraction fails or the text is empty or blank it has
\* returned the empty sequence, which KB then holds; the server still answers
\* GET /kb, with a JSON array.
C11_FailedLoadEndsEmpty ==
  /\ console.msg \in
       FailureMessages \cup {"", "Loaded structured KB", "Loaded fallback KB"}
  /\ (console.msg \in FailureMessages => KB = <<>> /\ jsonRoundTrip(KB) = <<>>)
  /\ (started => ENABLED FetchKb)
  /\ isEntryArray

\* knowledge was loaded and fetched, then extraction failed on a changed
\* file: KB is empty again and the page still holds its array
C11_Witness ==
  /\ console.msg = "PDF parsing failed"
  /\ KB = <<>>
  /\ pending = <<>>
  /\ FAQ # <<>>
  /\ isEntryArray
  /\ file = Corrupt

\* the space-delimited words of s: its maximal runs without a space
wordsIn(s) ==
  { SubSeq(s, ij[1], ij[2]) :
      ij \in { ij \in (1..Len(s)) \X (1..Len(s)) :
                 /\ ij[1] <= ij[2]
                 /\ \A k \in ij[1]..ij[2] : At(s, k) # " "
                 /\ (ij[1] = 1 \/ At(s, ij[1] - 1) = " ")
                 /\ (ij[2] = Len(s) \/ At(s, ij[2] + 1) = " ") } }

\* the words of the pattern (one for each time it holds them) that are whole
\* words of the query
wholeWordHits(ws, queryWords) == Cardinality({k \in 1..Len(ws) : ws[k] \in queryWords})

\* ret is the greatest of the coverages cov[k] = [hits, words] and of 0
greatestCoverage(ret, cov) ==
  /\ ret.d > 0
  /\ \A k \in DOMAIN cov : cov[k].hits * ret.d <= ret.n * cov[k].words
  /\ \/ ret.n = 0
     \/ \E k \in DOMAIN cov : cov[k].hits * ret.d = ret.n * cov[k].words

\* C12: a pattern word counts as a hit only if it is a whole space-delimited
\* word of the normalized query; one that occurs only inside a query word
\* ("cat" in "category") contributes no hit.  The score is then the greatest
\* hits / words over the patterns (stated for patterns that have words).
C12_WholeWordHits ==
  call.op = "scoreMatch" /\ (\A k \in 1..Len(call.patterns) : normalize(call.patterns[k]) # "") =>
    greatestCoverage(call.ret,
      [k \in 1..Len(call.patterns) |->
         [hits |-> wholeWordHits(patternWords(call.patterns[k]), wordsIn(normalize(call.user))),
          words |-> Len(patternWords(call.patterns[k]))]])

C12_Witness ==
  /\ call.op = "scoreMatch"
  /\ call.user = "category"
  /\ call.patterns = <<"cat">>
  /\ call.ret = [n |-> 0, d |-> 1]

\* the indices of p that hold a sentence terminator followed by whitespace
terminatorsOf(p) ==
  {i \in 1..(Len(p) - 1) : At(p, i) \in {".", "?", "!"} /\ isSpace(At(p, i + 1))}

\* p up to and including the first of the terminators ts, all of p if none
upToFirst(p, ts) == IF ts = {} THEN p ELSE SubSeq(p, 1, Min(ts))

\* a label longer than 120 characters is cut to 117 and an ellipsis
cutLabel(l) == IF Len(l) > 120 THEN SubSeq(l, 1, 117) \o "~" ELSE l

\* C13, as stated: for a non-empty trimmed paragraph p parseUnstructured
\* produces one entry whose body is p unchanged and whose label is p up to and
\* including the first sentence terminator ('.', '?' or '!') followed by
\* whitespace, or all of p if there is none, cut to 117 characters and an
\* ellipsis if longer than 120; also for paragraphs of several lines and
\* paragraphs that begin with a terminator.
C13_ParagraphLabel ==
  call.op = "parseUnstructured" =>
    /\ Len(call.ret) = 1
    /\ call.ret[1].a = call.text
    /\ call.ret[1].q = cutLabel(upToFirst(call.text, terminatorsOf(call.text)))

\* no change of the file is waiting for its reload and no load is in flight
reloadsComplete == started /\ ~dirty /\ pending = <<>>

\* C14, as stated: once the document has changed and the reload it triggered
\* has completed, every answer computed from then on, also by a page that
\* was loaded before the change, is matched against the rebuilt knowledge
\* base, the one KB holds.  (Stated for a page that has loaded a knowledge
\* base.)
C14_AnswersFollowReload ==
  [][Ask /\ FAQ # <<>> /\ reloadsComplete =>
       reply'.ans = AnswerOf[reply'.txt, jsonRoundTrip(KB)]]_vars

\* C15, as stated: once all the loads in flight have completed, KB is the
\* knowledge base built from the version of the document the most recently
\* triggered load read, which is the file as it is now when no change is
\* waiting for its reload: an earlier load never overwrites a later one.
C15_LastTriggeredLoadWins ==
  reloadsComplete => KB = Built[file].kb

====
